---- MODULE Spec2Model ----
(***************************************************************************)
(* A model of flac_to_alac.py: the preflight check, the discovery of the   *)
(* source files, the per-file conversion loop and the summary, run against *)
(* a small file system and an external encoder whose outcome is not under  *)
(* the program's control.                                                  *)
(*                                                                         *)
(* A path is a sequence of names, a name is a record of a stem and an      *)
(* extension (the text after the last dot, "" when there is none).  The    *)
(* empty sequence is the relative path '.', the current directory.  The    *)
(* file system maps each existing path to its kind and to a version that   *)
(* advances on every write (the modification time).                        *)
(***************************************************************************)
EXTENDS Integers, Sequences, FiniteSets, TLC

\* Bounds of the explored file systems and of the number of invocations.
MaxDepth == 1
MaxEntries == 1
MaxRuns == 2

N(s, e) == [stem |-> s, ext |-> e]

Root == << N("album", "") >>
Out == << N("out", "") >>
Sub == N("sub", "")
NoDir == << >>
None == << >>

\* ------------------------------------------------------------------------
\* pathlib
\* ------------------------------------------------------------------------

Last(p) == p[Len(p)]

parent(p) == IF p = << >> THEN << >> ELSE SubSeq(p, 1, Len(p) - 1)

IsPrefix(p, q) == Len(p) <= Len(q) /\ SubSeq(q, 1, Len(p)) = p

\* str.lower() on the extensions that occur.
lower(e) ==
  CASE e = "FLAC" -> "flac"
    [] e = "Flac" -> "flac"
    [] e = "fLaC" -> "flac"
    [] OTHER -> e

\* Path.suffix, without the dot.
suffix(p) == IF p = << >> THEN "" ELSE Last(p).ext

\* Path.with_suffix: defined only for a path with a name; on '.' pathlib
\* raises ValueError, which the callers test with HasName.
HasName(p) == p # << >>

with_suffix(p, e) == SubSeq(p, 1, Len(p) - 1) \o << N(Last(p).stem, e) >>

\* Path.relative_to, for a path below (or equal to) the base.
relative_to(p, base) == SubSeq(p, Len(base) + 1, Len(p))

NoEntry == [kind |-> "none", ver |-> 0]

Stat(f, p) ==
  IF p = << >> THEN [kind |-> "dir", ver |-> 0]
  ELSE IF p \in DOMAIN f THEN f[p] ELSE NoEntry

exists(f, p) == Stat(f, p).kind # "none"
is_file(f, p) == Stat(f, p).kind = "file"
is_dir(f, p) == Stat(f, p).kind = "dir"

Prefixes(p) == { SubSeq(p, 1, k) : k \in 1..Len(p) }

\* Path.mkdir(parents=True, exist_ok=True): creates the missing directories
\* of the path; FileExistsError / NotADirectoryError when a component is a
\* file.
mkdir(f, p) ==
  IF \E q \in Prefixes(p) : is_file(f, q)
  THEN [ok |-> FALSE, fs |-> f]
  ELSE [ok |-> TRUE,
        fs |-> [q \in DOMAIN f \cup Prefixes(p) |->
                  IF q \in DOMAIN f THEN f[q] ELSE [kind |-> "dir", ver |-> 0]]]

RECURSIVE SetToSeq(_)
\* The order in which a directory scan yields its entries: fixed, arbitrary.
SetToSeq(S) ==
  IF S = {} THEN << >>
  ELSE LET x == CHOOSE y \in S : TRUE IN << x >> \o SetToSeq(S \ {x})

\* Path.rglob('*.<pat>') on a POSIX build: every entry below the directory,
\* file or directory, whose name ends in '.<pat>', compared case-sensitively.
rglob(f, directory, pat) ==
  SetToSeq({ p \in DOMAIN f : /\ IsPrefix(directory, p)
                              /\ p # directory
                              /\ Last(p).ext = pat })

Range(s) == { s[i] : i \in 1..Len(s) }

\* ------------------------------------------------------------------------
\* The program
\* ------------------------------------------------------------------------

VARIABLES
  args,              \* the parsed command line: input, output_dir, overwrite
  fs,                \* the file system
  fs0,               \* the file system when the current run started
  pc,                \* position of main: "start", "setup", "collect", "loop", "exit"
  preflight,         \* outcome of 'ffmpeg -version' in the current run
  files_to_convert,  \* main's list of source files
  idx,               \* position of the for loop in files_to_convert
  successful,        \* main's counter
  failed,            \* main's counter
  invocations,       \* encoder invocations for conversions in the current run
  exitCode,          \* process exit status, -1 while running
  exitKind,          \* how the run ended
  attempt,           \* record of the most recent loop iteration
  last,              \* per destination, the summary of the last attempt on it
  run                \* number of the current run

vars == << args, fs, fs0, pc, preflight, files_to_convert, idx, successful,
           failed, invocations, exitCode, exitKind, attempt, last, run >>

\* Outcomes of launching 'ffmpeg -version'.
PreflightOutcomes == {"ok", "nonzero", "missing", "oserror"}

\* Outcomes of launching the encoder on one file: exit status zero, non-zero
\* exit leaving no output, non-zero exit leaving a truncated output, and a
\* failure to start the process at all.
EncoderOutcomes == {"zero", "nonzero", "partial", "launchfail"}

\* check_ffmpeg without check=True: a non-zero exit no longer raises.
check_ffmpeg_unchecked(outcome) ==
  CASE outcome = "ok" -> "True"
    [] outcome = "nonzero" -> "True"
    [] outcome = "missing" -> "False"
    [] OTHER -> "raise"

\* check_ffmpeg: True on a zero exit; CalledProcessError and
\* FileNotFoundError are caught and give False; any other OSError escapes.
check_ffmpeg(outcome) ==
  CASE outcome = "ok" -> "True"
    [] outcome = "nonzero" -> "False"
    [] outcome = "missing" -> "False"
    [] OTHER -> "raise"

\* find_flac_files
find_flac_files(f, directory) ==
  IF ~ is_dir(f, directory) THEN << >>
  ELSE rglob(f, directory, "flac") \o rglob(f, directory, "FLAC")

\* The skip test with the flag inverted.
SkipExisting_inverted(output_exists, overwrite) == output_exists /\ overwrite

\* The skip test that forgets the flag.
SkipExisting_always(output_exists, overwrite) == output_exists

\* The test that makes convert_flac_to_alac skip a file.
SkipExisting(output_exists, overwrite) == output_exists /\ ~ overwrite

\* The encoder process started by convert_flac_to_alac with
\*   ffmpeg -i <src> -c:a alac <-y|-n> -loglevel error <dst>
\* It can exit zero only if it can read the source and may write the
\* destination (-n refuses an existing destination); exit zero leaves the
\* destination written.
RunEncoder(f, src, dst, force, outcome) ==
  LET canRead == is_file(f, src)
      canWrite == /\ is_dir(f, parent(dst))
                  /\ ~ is_dir(f, dst)
                  /\ (force \/ ~ exists(f, dst))
      eff == CASE outcome = "launchfail" -> "launchfail"
               [] outcome = "zero" /\ canRead /\ canWrite -> "zero"
               [] outcome = "partial" /\ canWrite -> "partial"
               [] OTHER -> "nonzero"
      written == [p \in DOMAIN f \cup {dst} |->
                    IF p = dst THEN [kind |-> "file", ver |-> Stat(f, dst).ver + 1]
                    ELSE f[p]]
  IN [exit |-> eff,
      fs |-> IF eff \in {"zero", "partial"} THEN written ELSE f]

\* convert_flac_to_alac(input_file, output_file, overwrite); output_file is
\* None when the caller passes none.  The result names the boolean returned
\* ("raise" for an exception that escapes) and what happened.
convert_flac_to_alac(f, input_file, output_file, overwrite, outcome) ==
  LET output_path == IF output_file = None
                     THEN with_suffix(input_file, "m4a")
                     ELSE output_file
      before == Stat(f, output_path)
      enc == RunEncoder(f, input_file, output_path, overwrite, outcome)
      base == [ret |-> "False", result |-> "none", dst |-> output_path,
               before |-> before, fs |-> f, invoked |-> FALSE, exit |-> "none",
               warned |-> lower(suffix(input_file)) # "flac",
               parentOk |-> is_dir(f, parent(output_path))]
  IN IF ~ exists(f, input_file)
     THEN [base EXCEPT !.ret = "False", !.result = "notfound"]
     ELSE IF SkipExisting(exists(f, output_path), overwrite)
     THEN [base EXCEPT !.ret = "False", !.result = "skipped"]
     ELSE LET b == [base EXCEPT !.invoked = TRUE, !.exit = enc.exit,
                                !.fs = enc.fs]
          IN CASE enc.exit = "zero" ->
                    [b EXCEPT !.ret = "True", !.result = "succeeded"]
               [] enc.exit = "launchfail" ->
                    [b EXCEPT !.ret = "raise", !.result = "raised"]
               [] OTHER ->
                    [b EXCEPT !.ret = "False", !.result = "failed"]

\* The output directory defaulting to the input when none is given.
DetermineOutputDir_default(a) ==
  IF a.output_dir = NoDir THEN a.input ELSE a.output_dir

\* main, lines 159-164: the local output_dir (NoDir for None).
DetermineOutputDir(a) == a.output_dir

\* The output file named after the source alone, its directories dropped.
OutputFileFor_flat(a, flac_file) ==
  DetermineOutputDir(a) \o << N(Last(flac_file).stem, "m4a") >>

\* main, lines 187-193: the output_file handed to convert_flac_to_alac for
\* one entry of files_to_convert.  relative_to(input) of the input itself is
\* '.', on which with_suffix raises ValueError; the mkdir of the parent
\* raises when a component is a file.
OutputFileFor(a, flac_file) ==
  DetermineOutputDir(a) \o with_suffix(relative_to(flac_file, a.input), "m4a")

\* main, lines 186-198: one iteration of the for loop.
LoopBody(f, a, flac_file, outcome) ==
  LET output_dir == DetermineOutputDir(a)
      relative_path == relative_to(flac_file, a.input)
      output_file == OutputFileFor(a, flac_file)
      mk == mkdir(f, parent(output_file))
      raised == [ret |-> "raise", result |-> "raised", dst |-> None,
                 before |-> NoEntry, fs |-> f, invoked |-> FALSE,
                 exit |-> "none", warned |-> FALSE, parentOk |-> FALSE]
  IN IF output_dir # NoDir
     THEN IF ~ HasName(relative_path)
          THEN raised
          ELSE IF ~ mk.ok
          THEN [raised EXCEPT !.dst = output_file]
          ELSE convert_flac_to_alac(mk.fs, flac_file, output_file,
                                    a.overwrite, outcome)
     ELSE convert_flac_to_alac(f, flac_file, None, a.overwrite, outcome)

\* ------------------------------------------------------------------------
\* The file systems and command lines explored
\* ------------------------------------------------------------------------

InDir(k) == Root \o [i \in 1..k |-> Sub]
OutDir(k) == Out \o [i \in 1..k |-> Sub]

SrcNames == { N("a", "flac"), N("a", "FLAC"), N("a", "Flac"), N("a", "fLaC") }

E(p, k) == [path |-> p, kind |-> k]

Candidates ==
  UNION { { E(InDir(k) \o << n >>, "file") : n \in SrcNames }
          \cup { E(InDir(k) \o << N("d", "flac") >>, "dir"),
                 E(OutDir(k), "file") }
          : k \in 0..MaxDepth }
  \cup { E(Root \o << N("n", "mp3") >>, "file"),
         E(Root \o << N("a", "m4a") >>, "file"),
         E(Out \o << N("a", "m4a") >>, "file"),
         E(Out, "dir") }

\* No path twice and nothing below a file.
Consistent(S) ==
  \A x \in S : \A y \in S :
    x # y => /\ x.path # y.path
             /\ ~ (x.kind = "file" /\ IsPrefix(x.path, y.path))

MakeFs(S) ==
  LET paths == {Root} \cup UNION { Prefixes(x.path) : x \in S }
  IN [p \in paths |->
        IF \E x \in S : x.path = p
        THEN [kind |-> (CHOOSE x \in S : x.path = p).kind, ver |-> 0]
        ELSE [kind |-> "dir", ver |-> 0]]

\* Before the first loop iteration there is no attempt to record.
NoAttempt ==
  [run |-> 0, src |-> None, dst |-> None, result |-> "none",
   invoked |-> FALSE, exit |-> "none", parentOk |-> FALSE,
   before |-> NoEntry, after |-> NoEntry, prev |-> [result |-> "none"]]

Inputs == { Root, Root \o << N("a", "flac") >>, Root \o << N("n", "mp3") >> }

Init ==
  /\ \E S \in SUBSET Candidates :
       /\ Cardinality(S) <= MaxEntries
       /\ Consistent(S)
       /\ fs = MakeFs(S)
  /\ fs0 = fs
  /\ \E i \in Inputs : \E o \in {NoDir, Out} : \E w \in BOOLEAN :
       args = [input |-> i, output_dir |-> o, overwrite |-> w]
  /\ pc = "start"
  /\ preflight = "none"
  /\ files_to_convert = << >>
  /\ idx = 1
  /\ successful = 0
  /\ failed = 0
  /\ invocations = 0
  /\ exitCode = -1
  /\ exitKind = "none"
  /\ attempt = NoAttempt
  /\ last = << >>
  /\ run = 1

\* sys.exit(code), or an uncaught exception (status 1).
Exit(code, kind) ==
  /\ pc' = "exit"
  /\ exitCode' = code
  /\ exitKind' = kind

\* main, lines 149-155.
Preflight ==
  /\ pc = "start"
  /\ \E o \in PreflightOutcomes :
       /\ preflight' = o
       /\ CASE check_ffmpeg(o) = "True" ->
                 pc' = "setup" /\ UNCHANGED << exitCode, exitKind >>
            [] check_ffmpeg(o) = "False" -> Exit(1, "no_ffmpeg")
            [] OTHER -> Exit(1, "exception")
  /\ UNCHANGED << args, fs, fs0, files_to_convert, idx, successful, failed,
                  invocations, attempt, last, run >>

\* main, lines 157-164.
SetupOutput ==
  /\ pc = "setup"
  /\ LET output_dir == DetermineOutputDir(args)
         mk == mkdir(fs, output_dir)
     IN IF output_dir # NoDir
        THEN IF mk.ok
             THEN /\ fs' = mk.fs
                  /\ pc' = "collect"
                  /\ UNCHANGED << exitCode, exitKind >>
             ELSE /\ Exit(1, "exception")
                  /\ UNCHANGED fs
        ELSE /\ pc' = "collect"
             /\ UNCHANGED << fs, exitCode, exitKind >>
  /\ UNCHANGED << args, fs0, preflight, files_to_convert, idx, successful,
                  failed, invocations, attempt, last, run >>

\* main, lines 166-180.
Collect ==
  /\ pc = "collect"
  /\ IF is_file(fs, args.input)
     THEN /\ files_to_convert' = << args.input >>
          /\ pc' = "loop"
          /\ UNCHANGED << exitCode, exitKind >>
     ELSE IF is_dir(fs, args.input)
     THEN /\ files_to_convert' = find_flac_files(fs, args.input)
          /\ IF files_to_convert' = << >>
             THEN Exit(1, "no_files")
             ELSE pc' = "loop" /\ UNCHANGED << exitCode, exitKind >>
     ELSE /\ Exit(1, "no_input")
          /\ UNCHANGED files_to_convert
  /\ UNCHANGED << args, fs, fs0, preflight, idx, successful, failed,
                  invocations, attempt, last, run >>

\* main, lines 186-198, with the call of convert_flac_to_alac.
ConvertNext ==
  /\ pc = "loop"
  /\ idx <= Len(files_to_convert)
  /\ \E outcome \in EncoderOutcomes :
       LET flac_file == files_to_convert[idx]
           r == LoopBody(fs, args, flac_file, outcome)
       IN /\ fs' = r.fs
          /\ invocations' = invocations + (IF r.invoked THEN 1 ELSE 0)
          /\ attempt' = [run |-> run, src |-> flac_file,
                          dst |-> r.dst, result |-> r.result,
                          invoked |-> r.invoked, exit |-> r.exit,
                          parentOk |-> r.parentOk,
                          before |-> r.before,
                          after |-> IF r.dst = None THEN NoEntry
                                    ELSE Stat(r.fs, r.dst),
                          prev |-> IF r.dst \in DOMAIN last THEN last[r.dst]
                                   ELSE [result |-> "none"]]
          /\ last' = IF r.dst = None THEN last
                     ELSE [d \in DOMAIN last \cup {r.dst} |->
                             IF d = r.dst
                             THEN [result |-> r.result, src |-> flac_file,
                                   exit |-> r.exit,
                                   absent |-> r.before.kind = "none"]
                             ELSE last[d]]
          /\ CASE r.ret = "True" ->
                    /\ successful' = successful + 1
                    /\ idx' = idx + 1
                    /\ UNCHANGED << failed, pc, exitCode, exitKind >>
               [] r.ret = "False" ->
                    /\ failed' = failed + 1
                    /\ idx' = idx + 1
                    /\ UNCHANGED << successful, pc, exitCode, exitKind >>
               [] OTHER ->
                    /\ Exit(1, "exception")
                    /\ UNCHANGED << successful, failed, idx >>
  /\ UNCHANGED << args, fs0, preflight, files_to_convert, run >>

\* main, lines 200-206: the summary, then the normal end of the process.
Summary ==
  /\ pc = "loop"
  /\ idx > Len(files_to_convert)
  /\ Exit(0, "summary")
  /\ UNCHANGED << args, fs, fs0, preflight, files_to_convert, idx,
                  successful, failed, invocations, attempt, last, run >>

\* The same command line is run again on the file system the previous run
\* left.
Rerun ==
  /\ pc = "exit"
  /\ run < MaxRuns
  /\ run' = run + 1
  /\ pc' = "start"
  /\ fs0' = fs
  /\ preflight' = "none"
  /\ files_to_convert' = << >>
  /\ idx' = 1
  /\ successful' = 0
  /\ failed' = 0
  /\ invocations' = 0
  /\ exitCode' = -1
  /\ exitKind' = "none"
  /\ UNCHANGED << args, fs, attempt, last >>

Next ==
  \/ Preflight
  \/ SetupOutput
  \/ Collect
  \/ ConvertNext
  \/ Summary
  \/ Rerun

Spec == Init /\ [][Next]_vars

TypeOK ==
  /\ pc \in {"start", "setup", "collect", "loop", "exit"}
  /\ exitCode \in {-1, 0, 1}
  /\ idx \in 1..(Len(files_to_convert) + 1)

\* ------------------------------------------------------------------------
\* Properties
\* ------------------------------------------------------------------------

\* The regular files below a directory whose extension is 'flac' in any case.
FlacFilesBelow(f, d) ==
  { p \in DOMAIN f : /\ IsPrefix(d, p)
                     /\ p # d
                     /\ f[p].kind = "file"
                     /\ lower(Last(p).ext) = "flac" }

\* Discovery of a directory input has just returned (the file system is
\* still the one that was scanned).
DiscoveryReturned ==
  /\ is_dir(fs, args.input)
  /\ \/ pc = "loop" /\ idx = 1
     \/ pc = "exit" /\ exitKind = "no_files"

\* C1: for a directory input, find_flac_files returns exactly the files
\* below it whose extension equals 'flac' case-insensitively, and nothing
\* else.
C1_DiscoveryExact ==
  DiscoveryReturned =>
    Range(files_to_convert) = FlacFilesBelow(fs, args.input)

\* A loop iteration has run (in this or an earlier run of the command).
Attempted == attempt.run > 0

\* The number of loop iterations begun in the current run.
Iterations == (idx - 1) + (IF pc = "exit" /\ attempt.run = run
                              /\ attempt.result = "raised" THEN 1 ELSE 0)

\* The destination root/p/name.flac is mapped to: outputDir/p/name.m4a.
ExpectedDestination(src) ==
  args.output_dir
    \o SubSeq(src, Len(args.input) + 1, Len(src) - 1)
    \o << N(Last(src).stem, "m4a") >>

\* C2: with a directory input and an output directory, every discovered
\* source root/p/name.flac is handed to the conversion with destination
\* outputDir/p/name.m4a, and the destination's parent directory exists
\* whenever the encoder is invoked.
C2_DestinationPreserved ==
  (is_dir(fs, args.input) /\ args.output_dir # NoDir) =>
    /\ Attempted =>
         /\ attempt.dst = ExpectedDestination(attempt.src)
         /\ attempt.invoked => attempt.parentOk
    /\ (pc \in {"loop", "exit"} /\ idx > 1) =>
         /\ attempt.run = run
         /\ attempt.src = files_to_convert[Iterations]

\* A nested source was encoded into the matching nested destination, whose
\* directory the run had to create.
C2_Witness ==
  /\ is_dir(fs, args.input)
  /\ args.output_dir # NoDir
  /\ attempt.src = InDir(1) \o << N("a", "flac") >>
  /\ attempt.dst = OutDir(1) \o << N("a", "m4a") >>
  /\ attempt.result = "succeeded"
  /\ ~ exists(fs0, OutDir(1))

\* C3: a conversion whose destination already exists, without overwrite, is
\* a skip: the encoder is not invoked and the destination is unchanged.
C3_SkipLeavesDestination ==
  (Attempted /\ attempt.before.kind # "none" /\ ~ args.overwrite) =>
    /\ attempt.result = "skipped"
    /\ ~ attempt.invoked
    /\ attempt.after = attempt.before

\* An existing destination file was met without overwrite and skipped.
C3_Witness ==
  /\ attempt.before.kind = "file"
  /\ ~ args.overwrite
  /\ attempt.result = "skipped"

\* The latest attempt is the second of two in a row on the same source and
\* destination: the attempt before it on that destination had the same
\* source, found the destination absent, and the encoder exited zero
\* whenever it was invoked.
TwiceInARow ==
  /\ Attempted
  /\ attempt.prev.result # "none"
  /\ attempt.prev.src = attempt.src
  /\ attempt.prev.absent
  /\ attempt.prev.exit = "zero"
  /\ attempt.invoked => attempt.exit = "zero"

\* C4: converting the same source twice in a row, the destination absent at
\* first and the encoder exiting zero whenever invoked: without overwrite the
\* first attempt succeeds and the second is skipped; with overwrite both
\* succeed and the second invokes the encoder again and rewrites the
\* destination.
C4_TwiceInARow ==
  TwiceInARow =>
    /\ attempt.prev.result = "succeeded"
    /\ IF args.overwrite
       THEN /\ attempt.result = "succeeded"
            /\ attempt.invoked
            /\ attempt.after.kind = "file"
            /\ attempt.after.ver > attempt.before.ver
       ELSE /\ attempt.result = "skipped"
            /\ ~ attempt.invoked

\* The same source was converted twice with overwrite and rewritten.
C4_Witness ==
  /\ TwiceInARow
  /\ args.overwrite
  /\ attempt.result = "succeeded"
  /\ attempt.after.ver = 2

\* C5: when the preflight finds the encoder missing or exiting non-zero, the
\* run exits with status 1 with no conversion invoked, no discovery done and
\* the file system untouched.
C5_PreflightAborts ==
  preflight \in {"missing", "nonzero"} =>
    /\ pc = "exit"
    /\ exitCode = 1
    /\ invocations = 0
    /\ files_to_convert = << >>
    /\ fs = fs0
    /\ attempt.run # run

\* The encoder exited non-zero in the preflight of a run that had files to
\* convert and an output directory to create.
C5_Witness ==
  /\ preflight = "nonzero"
  /\ pc = "exit"
  /\ args.output_dir # NoDir
  /\ ~ exists(fs, args.output_dir)
  /\ FlacFilesBelow(fs, args.input) # {}

\* C6: the exit status is 1 when the encoder is unavailable, the input does
\* not exist or a directory input has no matching file, the latter two
\* before any conversion attempt; every other run (encoder available, at
\* least one file discovered) ends with status 0.
C6_ExitStatus ==
  pc = "exit" =>
    /\ preflight # "ok" => exitCode = 1
    /\ exitKind \in {"no_input", "no_files"} =>
         exitCode = 1 /\ attempt.run # run
    /\ (preflight = "ok" /\ files_to_convert # << >>) => exitCode = 0

\* C7: a non-zero exit or a launch failure of the encoder gives a failed
\* task and a zero exit a succeeded one; a failed task does not end the run,
\* and the encoder is invoked at most once per task.
C7_FailureIsResult ==
  /\ (Attempted /\ attempt.invoked) =>
       /\ attempt.exit = "zero" => attempt.result = "succeeded"
       /\ attempt.exit \in {"nonzero", "partial", "launchfail"} =>
            attempt.result = "failed"
  /\ invocations <= Iterations
  /\ (pc = "exit" /\ exitKind = "exception" /\ attempt.run = run) =>
       ~ attempt.invoked

\* C8: a run that passed preflight and discovery reaches the summary, and
\* successful + failed = the number of files discovered, a skip counted as
\* failed.
C8_SummaryCounts ==
  /\ pc = "loop" => successful + failed = idx - 1
  /\ (pc = "exit" /\ preflight = "ok" /\ files_to_convert # << >>) =>
       /\ exitKind = "summary"
       /\ successful + failed = Len(files_to_convert)

\* C9: a regular-file input with an output directory reaches a conversion
\* attempt whose destination is outputDir/name.m4a.
C9_FileInputWithOutputDir ==
  (/\ pc = "exit"
   /\ preflight = "ok"
   /\ is_file(fs, args.input)
   /\ args.output_dir # NoDir
   /\ is_dir(fs, args.output_dir)) =>
    /\ attempt.run = run
    /\ attempt.src = args.input
    /\ attempt.dst = args.output_dir \o << N(Last(args.input).stem, "m4a") >>

\* The run ended in a fatal input error.
FatalInputError == pc = "exit" /\ exitKind \in {"no_input", "no_files"}

\* C10 as stated: after a fatal input error the file system is unchanged.
C10_FatalInputLeavesFs ==
  FatalInputError => fs = fs0

\* C10, amended: after a fatal input error no conversion was attempted and
\* nothing existing was changed; the only additions are the directories of
\* the path given as output directory.
C10_FatalInputOnlyOutputDir ==
  FatalInputError =>
    /\ invocations = 0
    /\ attempt.run # run
    /\ \A p \in DOMAIN fs0 : p \in DOMAIN fs /\ fs[p] = fs0[p]
    /\ \A p \in DOMAIN fs \ DOMAIN fs0 :
         p \in Prefixes(args.output_dir) /\ fs[p].kind = "dir"

\* A directory without matching files ended the run after the output
\* directory had been created.
C10_Witness ==
  /\ pc = "exit"
  /\ exitKind = "no_files"
  /\ args.output_dir # NoDir
  /\ ~ exists(fs0, args.output_dir)
  /\ is_dir(fs, args.output_dir)

====
